---- MODULE Spec2Model ----
(***************************************************************************)
(* Model of the Oura OAuth token lifecycle and sync reconciliation of the  *)
(* sleep backend (server/controllers/sleepController.js, second iteration  *)
(* starting at line 765; server/controllers/userController.js;             *)
(* server/utils/firestoreUtils.js; model/SleepData.js; the User model).    *)
(*                                                                         *)
(* Time.  An instant is day * TicksPerDay + tick-of-day; tick 0 of a day   *)
(* is exactly 00:00:00.000 UTC.  Days are numbered from EpochYear-01-01.   *)
(*                                                                         *)
(* Faults.  Every provider HTTP call may fail.  Of the document store the  *)
(* per-record read and the batch commit of syncOuraData and the            *)
(* transaction of the OAuth callback may fail; writes of the user document *)
(* by saveUser, of the sleepData parent document and of the oauthStates    *)
(* collection are taken to succeed.                                        *)
(* A stored token ciphertext that fails decryption is a fault of the       *)
(* specification SpecDecrypt only.                                         *)
(* The query and the write of updateSleepSummaries are taken to succeed.   *)
(***************************************************************************)
EXTENDS Integers, Sequences, FiniteSets, TLC

\* ------------------------------------------------------------------ time
TicksPerDay == 2
EpochYear == 2023
LastYear == 2025

NoDate == -1

Max(a, b) ==
    IF a >= b THEN a ELSE b

Min(a, b) ==
    IF a <= b THEN a ELSE b

IsLeap(y) ==
    (y % 4 = 0 /\ y % 100 # 0) \/ y % 400 = 0

DaysInMonth(y, m) ==
    IF m = 2 THEN (IF IsLeap(y) THEN 29 ELSE 28)
    ELSE IF m \in {4, 6, 9, 11} THEN 30 ELSE 31

RECURSIVE DaysBeforeYear(_)
DaysBeforeYear(y) ==
    IF y <= EpochYear THEN 0
    ELSE DaysBeforeYear(y - 1) + (IF IsLeap(y - 1) THEN 366 ELSE 365)

RECURSIVE DaysBeforeMonth(_, _)
DaysBeforeMonth(y, m) ==
    IF m <= 1 THEN 0
    ELSE DaysBeforeMonth(y, m - 1) + DaysInMonth(y, m - 1)

\* day number of the calendar date y-m-d (moment.utc('YYYY-MM-DD'))
DayNum(y, m, d) ==
    DaysBeforeYear(y) + DaysBeforeMonth(y, m) + (d - 1)

\* calendar date <<y, m, d>> of a day number (format('YYYY-MM-DD'))
DateOf(n) ==
    LET y == CHOOSE yy \in EpochYear..LastYear :
                 DaysBeforeYear(yy) <= n /\ n < DaysBeforeYear(yy + 1)
        r == n - DaysBeforeYear(y)
        m == CHOOSE mm \in 1..12 :
                 DaysBeforeMonth(y, mm) <= r
                 /\ r < DaysBeforeMonth(y, mm) + DaysInMonth(y, mm)
    IN  <<y, m, r - DaysBeforeMonth(y, m) + 1>>

DayOf(t) ==
    t \div TicksPerDay

StartOfDay(t) ==
    DayOf(t) * TicksPerDay

\* moment#subtract(k, 'months'): shift the month, clamp the day of month
SubtractMonths(t, k) ==
    LET dt == DateOf(DayOf(t))
        mi == (dt[1] * 12 + (dt[2] - 1)) - k
        y  == mi \div 12
        m  == (mi % 12) + 1
        d  == Min(dt[3], DaysInMonth(y, m))
    IN  DayNum(y, m, d) * TicksPerDay + (t % TicksPerDay)

LookbackMonths == 6

\* syncOuraData step 4: the fetch window <<startDay, endDay>> of a run
SyncWindow(lastSyncDate, now) ==
    LET sixMonthsAgo == StartOfDay(SubtractMonths(now, LookbackMonths))
    IN  IF lastSyncDate # NoDate /\ lastSyncDate > sixMonthsAgo
        THEN <<DayOf(lastSyncDate) + 1, DayOf(now)>>
        ELSE <<DayOf(sixMonthsAgo), DayOf(now)>>

\* ------------------------------------------------------------- bounds
MaxTicks == 1
TokenLifeTicks == 1
StateLifeTicks == 0
MaxStates == 2
MaxTokens == 3
MaxRuns == 2
MaxCallbacks == 2
MaxNotes == 1
MaxNoteVal == 1
MaxVersion == 1
MaxBad == 1
MaxBatchRecords == 5
MaxMergeRecords == 2
MaxAuthRecords == 1
MaxProfileUpdates == 1
MaxProfileVal == 2

\* write batch size of syncOuraData, scaled down from 50
BATCH_SIZE == 2

ClockStart ==
    DayNum(2024, 1, 15) * TicksPerDay + 1

Today0 ==
    DayOf(ClockStart)

\* the calendar days the provider may hold data for
DaysUpTo(n) ==
    (Today0 - n + 1)..(Today0 + 1)

\* the last n days up to today
PastDays(n) ==
    (Today0 - n + 1)..Today0

Days ==
    DaysUpTo(MaxBatchRecords)

\* the user the runs belong to, and another user of the application
Me == "u1"
Users == {"u1", "u2"}

SyncProcs == {"s1", "s2"}
CbProcs == {"c1", "c2"}
StateIds == 1..MaxStates

Absent == -1

VARIABLES clock, integ, oauthStates, nextState, nextTok, daily,
          sync, cb, runs, cbRuns, notes, lastNote, consumed, persisted, failedMark,
          wIn, wOut, profile, others, creator, summ, ledger

vars ==
    <<clock, integ, oauthStates, nextState, nextTok, daily,
      sync, cb, runs, cbRuns, notes, lastNote, consumed, persisted, failedMark,
      wIn, wOut, profile, others, creator, summ, ledger>>

\* ------------------------------------------------- integration record
\* disconnectOuraIntegration: ouraIntegration: { connected: false }
DisconnectedIntegrationMutant ==
    [connected |-> TRUE, accessToken |-> 0, refreshToken |-> 0,
     expiresAt |-> NoDate, tokenInvalid |-> FALSE, lastSyncDate |-> NoDate]

DisconnectedIntegration ==
    [connected |-> FALSE, accessToken |-> 0, refreshToken |-> 0,
     expiresAt |-> NoDate, tokenInvalid |-> FALSE, lastSyncDate |-> NoDate]

\* ensureUserDocument on an existing user: { ...existing.ouraIntegration,
\* ...userData.ouraIntegration } written with set(..., { merge: true });
\* a property the local copy does not carry keeps its stored value
MergeIntegration(stored, local) ==
    [connected    |-> local.connected,
     accessToken  |-> IF local.accessToken # 0 THEN local.accessToken
                      ELSE stored.accessToken,
     refreshToken |-> IF local.refreshToken # 0 THEN local.refreshToken
                      ELSE stored.refreshToken,
     expiresAt    |-> IF local.expiresAt # NoDate THEN local.expiresAt
                      ELSE stored.expiresAt,
     tokenInvalid |-> local.tokenInvalid,
     lastSyncDate |-> local.lastSyncDate]

\* handleOuraOAuthCallback: the ouraIntegration object of the transaction
ConnectedIntegration(current, tok, now) ==
    [connected    |-> TRUE,
     accessToken  |-> tok,
     refreshToken |-> tok,
     expiresAt    |-> now + TokenLifeTicks,
     tokenInvalid |-> FALSE,
     lastSyncDate |-> current.lastSyncDate]

\* ------------------------------------------------------ daily records
NoDoc ==
    [exists |-> FALSE, score |-> Absent, metrics |-> Absent,
     tags |-> Absent, notes |-> Absent]

\* `existingData.tags || []`, `existingData.notes || ''` (0 is empty)
OrEmpty(v) ==
    IF v = Absent THEN 0 ELSE v

\* an Oura daily_sleep document of the given payload version
RawRecord(d, v) ==
    [day |-> d, score |-> v, total_sleep_duration |-> 100 * v,
     contributors |-> Absent]

\* a document the mapper rejects: no score
BadRecord(d) ==
    [day |-> d, score |-> Absent, total_sleep_duration |-> Absent,
     contributors |-> Absent]

\* a `day` that is not a YYYY-MM-DD string
Unparseable == -2

RECURSIVE mapOuraDataToSleepData(_)
mapOuraDataToSleepData(raw) ==
    IF raw = <<>> THEN <<>>
    ELSE LET r == Head(raw)
             rest == mapOuraDataToSleepData(Tail(raw))
         IN  IF r.day = Absent \/ r.day = Unparseable \/ r.score = Absent
             THEN rest
             ELSE <<[day |-> r.day, ouraScore |-> r.score,
                     metrics |-> OrEmpty(r.total_sleep_duration)]>> \o rest

RECURSIVE Insert(_, _)
Insert(x, s) ==
    IF s = <<>> THEN <<x>>
    ELSE IF x.day < Head(s).day THEN <<x>> \o s
    ELSE <<Head(s)>> \o Insert(x, Tail(s))

\* mappedSleepData.sort((a, b) => a.date - b.date)
RECURSIVE SortByDate(_)
SortByDate(s) ==
    IF s = <<>> THEN <<>> ELSE Insert(Head(s), SortByDate(Tail(s)))

RECURSIVE AscendingDays(_)
AscendingDays(S) ==
    IF S = {} THEN <<>>
    ELSE LET d == CHOOSE x \in S : \A y \in S : x <= y
         IN  <<d>> \o AscendingDays(S \ {d})

RECURSIVE Reverse(_)
Reverse(s) ==
    IF s = <<>> THEN <<>> ELSE Reverse(Tail(s)) \o <<Head(s)>>

\* response.data.data of GET /daily_sleep: one document per day of S, in
\* either order, followed by `bad` documents without a score
ProviderResponse(S, v, rev, bad) ==
    LET asc  == AscendingDays(S)
        docs == [k \in 1..Len(asc) |-> RawRecord(asc[k], v)]
        tail == [k \in 1..bad |-> BadRecord(Today0)]
    IN  (IF rev THEN Reverse(docs) ELSE docs) \o tail

\* the tags and notes the merged write carries for a day
PreservedMutant(existing) ==
    [tags |-> 0, notes |-> 0]

Preserved(existing) ==
    IF existing.exists
    THEN [tags |-> OrEmpty(existing.tags), notes |-> OrEmpty(existing.notes)]
    ELSE [tags |-> 0, notes |-> 0]

\* batch.set(docRef, sleepData.toFirestore(), { merge: true }) on commit
RECURSIVE ApplyBatch(_, _)
ApplyBatch(store, batch) ==
    IF batch = <<>> THEN store
    ELSE LET w == Head(batch)
         IN  ApplyBatch([store EXCEPT ![w.day] =
                            [exists |-> TRUE, score |-> w.score,
                             metrics |-> w.metrics, tags |-> w.tags,
                             notes |-> w.notes]],
                        Tail(batch))

BatchDays(batch) ==
    {batch[k].day : k \in 1..Len(batch)}

\* ------------------------------------------------------ profile fields
\* username, displayName, profileData, notifications of the user document;
\* `updated` is the value the last profile update wrote, `left` the number
\* of profile updates still to come
ProfileInit(k) ==
    [stored |-> 0, updated |-> Absent, left |-> k]

\* saveUser: ensureUserDocument writes { ...user.toFirestore() } with
\* set(..., { merge: true }), the profile fields of the local copy included
SaveProfile(stored, local) ==
    [stored EXCEPT !.stored = local]

\* ------------------------------------------------------ sleep summary
\* the fields a document of sleepSummaries can carry: those of
\* SleepSummary.toFirestore() and those updateSleepSummaries passes to the
\* constructor, which keeps userId and monthlyTrend of them only
SummaryFields ==
    {"userId", "dailyAverage", "weeklyTrend", "monthlyTrend", "bestScore",
     "worstScore", "improvement", "lastUpdated", "updatedAt", "currentMonth",
     "previousMonth", "overall", "streaks"}

\* a document: the fields it has and their values
NoSummaryDoc ==
    [has |-> {},
     val |-> [f \in SummaryFields |->
                 IF f = "monthlyTrend" THEN <<>> ELSE 0]]

\* pending recomputations are records [id, pc, snap]
NoSummaries ==
    [doc |-> NoSummaryDoc, jobs |-> {}, nextJob |-> 1,
     written |-> NoSummaryDoc, prev |-> NoSummaryDoc, writes |-> 0]

\* updateSleepSummaries(userId) is called and not awaited
FireSummary(sm) ==
    [sm EXCEPT !.jobs = @ \cup {[id |-> sm.nextJob, pc |-> "fired",
                                 snap |-> NoSummaryDoc]},
               !.nextJob = @ + 1]

\* the documents of the daily collection that carry a date and a numeric
\* ouraScore, by date ascending
SummaryDocs(store) ==
    LET days == {d \in DOMAIN store :
                    store[d].exists /\ store[d].score # Absent}
        asc == AscendingDays(days)
    IN  [k \in 1..Len(asc) |-> [date |-> asc[k], score |-> store[asc[k]].score]]

RECURSIVE SumOf(_)
SumOf(scores) ==
    IF scores = <<>> THEN 0 ELSE Head(scores) + SumOf(Tail(scores))

\* Math.round(average * 10) / 10, in tenths
calculateAverageScore(scores) ==
    IF scores = <<>> THEN 0
    ELSE LET sum == SumOf(scores)
             n == Len(scores)
         IN  (20 * sum + n) \div (2 * n)

MonthKey(day) ==
    <<DateOf(day)[1], DateOf(day)[2]>>

\* one entry per month with data, by month ascending, the last six
calculateMonthlyTrend(sortedDocs) ==
    LET keys == {MonthKey(sortedDocs[k].date) : k \in 1..Len(sortedDocs)}
        Of(key) == SelectSeq(sortedDocs, LAMBDA d : MonthKey(d.date) = key)
        Entry(key) ==
            [month |-> key,
             averageScore |->
                 calculateAverageScore([k \in 1..Len(Of(key)) |->
                                            Of(key)[k].score]),
             recordCount |-> Len(Of(key))]
        ord == AscendingDays({key[1] * 12 + key[2] : key \in keys})
        trend == [k \in 1..Len(ord) |->
                     Entry(<<(ord[k] - 1) \div 12, ((ord[k] - 1) % 12) + 1>>)]
    IN  SubSeq(trend, Max(1, Len(trend) - 5), Len(trend))

\* new SleepSummary({...}).toFirestore(): the constructor keeps userId and
\* monthlyTrend and sets its own defaults for the rest
SummaryToFirestore(sortedDocs, now) ==
    [has |-> {"userId", "dailyAverage", "weeklyTrend", "monthlyTrend",
              "bestScore", "worstScore", "improvement", "lastUpdated"},
     val |-> [f \in SummaryFields |->
                 CASE f = "userId" -> 1
                   [] f = "monthlyTrend" -> calculateMonthlyTrend(sortedDocs)
                   [] f = "lastUpdated" -> now
                   [] OTHER -> 0]]

\* set(data, { merge: true }): a field the data does not carry keeps its
\* stored value
MergeSummaryMutant(stored, data) ==
    [has |-> stored.has \cup data.has,
     val |-> [f \in SummaryFields |->
                 IF f \in stored.has THEN stored.val[f] ELSE data.val[f]]]

MergeSummary(stored, data) ==
    [has |-> stored.has \cup data.has,
     val |-> [f \in SummaryFields |->
                 IF f \in data.has THEN data.val[f] ELSE stored.val[f]]]

\* bookkeeping of the model: the fetch windows of the runs that completed
\* with a saved lastSyncDate, and the days of the records of failed write
\* batches that no later commit has stored
NoLedger ==
    [windows |-> {}, failed |-> {}]

Completed(l, w) ==
    [l EXCEPT !.windows = @ \cup {w}]

\* ---------------------------------------------------- syncOuraData
SyncIdle ==
    [pc |-> "idle", user |-> DisconnectedIntegration, now |-> 0,
     win |-> <<0, 0>>, rawCount |-> 0, mapped |-> <<>>, i |-> 0,
     batch |-> <<>>, items |-> 0, committed |-> <<>>, outcomes |-> <<>>,
     dirty |-> {}, processed |-> 0, errors |-> 0, result |-> "none",
     needsReconnect |-> FALSE, refreshCalls |-> 0, fetchCalls |-> 0,
     marked |-> FALSE, markSaved |-> FALSE, bookkept |-> FALSE,
     afterMark |-> FALSE, summary |-> "none", profile |-> 0,
     decryptFailed |-> "none"]

Finish(r, res, reconnect) ==
    [r EXCEPT !.pc = "done", !.result = res, !.needsReconnect = reconnect]

ToFetchMutant(r, t) ==
    [r EXCEPT !.win = SyncWindow(r.user.lastSyncDate, t), !.pc = "fetch"]

\* step 4 after the token is known to be usable: window, short circuit
ToFetch(r, t) ==
    LET w == SyncWindow(r.user.lastSyncDate, t)
    IN  IF w[1] > w[2]
        THEN Finish([r EXCEPT !.win = w], "upToDate", FALSE)
        ELSE [r EXCEPT !.win = w, !.pc = "fetch"]

\* bookkeeping of the model: the days another writer wrote during a run
Touch(r, days) ==
    IF r.pc = "idle" THEN r ELSE [r EXCEPT !.dirty = @ \cup days]

\* step 2: the connection check that skips the run
UnusableMutant(u) ==
    ~u.connected \/ u.accessToken = 0 \/ u.refreshToken = 0

Unusable(u) ==
    ~u.connected \/ u.tokenInvalid \/ u.accessToken = 0 \/ u.refreshToken = 0

\* steps 1-3: getUser, connection check, expiry check
SyncStart(p) ==
    /\ sync[p].pc = "idle"
    /\ runs > 0
    /\ runs' = runs - 1
    /\ LET u == integ
           r == [sync[p] EXCEPT !.user = u, !.now = clock,
                                !.afterMark = failedMark,
                                !.profile = profile.stored]
       IN  sync' = [sync EXCEPT ![p] =
             IF Unusable(u)
             THEN Finish(r, "skipped", u.tokenInvalid \/ ~u.connected)
             ELSE IF u.expiresAt = NoDate \/ clock >= u.expiresAt
             THEN [r EXCEPT !.pc = "refresh"]
             ELSE ToFetch(r, clock)]
    /\ UNCHANGED <<clock, integ, oauthStates, nextState, nextTok, daily, cb,
                   cbRuns, notes, lastNote, consumed, persisted, failedMark,
                   wIn, wOut, profile,
                   others, creator, summ, ledger>>

\* refreshAccessToken resolves: new pair, expiry from the run's `now`
SyncRefreshOK(p) ==
    /\ sync[p].pc = "refresh"
    /\ nextTok <= MaxTokens
    /\ nextTok' = nextTok + 1
    /\ sync' = [sync EXCEPT ![p] =
         [@ EXCEPT !.pc = "saveRefresh",
                   !.refreshCalls = @ + 1,
                   !.user = [@ EXCEPT !.accessToken = nextTok,
                                      !.refreshToken = nextTok,
                                      !.expiresAt = sync[p].now + TokenLifeTicks,
                                      !.tokenInvalid = FALSE]]]
    /\ UNCHANGED <<clock, integ, oauthStates, nextState, daily, cb, runs,
                   cbRuns, notes, lastNote, consumed, persisted, failedMark,
                   wIn, wOut, profile,
                   others, creator, summ, ledger>>

SyncRefreshFailMutant(p) ==
    /\ sync[p].pc = "refresh"
    /\ sync' = [sync EXCEPT ![p] = [@ EXCEPT !.refreshCalls = @ + 1]]
    /\ UNCHANGED <<clock, integ, oauthStates, nextState, nextTok, daily, cb,
                   runs, cbRuns, notes, lastNote, consumed, persisted, failedMark,
                   wIn, wOut, profile,
                   others, creator, summ, ledger>>

\* refreshAccessToken rejects: mark the local copy invalid
SyncRefreshFail(p) ==
    /\ sync[p].pc = "refresh"
    /\ sync' = [sync EXCEPT ![p] =
         [@ EXCEPT !.pc = "saveInvalid",
                   !.refreshCalls = @ + 1,
                   !.marked = TRUE,
                   !.user = [@ EXCEPT !.tokenInvalid = TRUE]]]
    /\ UNCHANGED <<clock, integ, oauthStates, nextState, nextTok, daily, cb,
                   runs, cbRuns, notes, lastNote, consumed, persisted, failedMark,
                   wIn, wOut, profile,
                   others, creator, summ, ledger>>

\* saveUser of the refreshed pair succeeds; the run goes on to step 4
SyncSaveRefreshed(p) ==
    /\ sync[p].pc = "saveRefresh"
    /\ integ' = MergeIntegration(integ, sync[p].user)
    /\ profile' = SaveProfile(profile, sync[p].profile)
    /\ failedMark' = FALSE
    /\ sync' = [sync EXCEPT ![p] = ToFetch(sync[p], clock)]
    /\ UNCHANGED <<clock, oauthStates, nextState, nextTok, daily, cb, runs,
                   cbRuns, notes, lastNote, consumed, persisted, wIn, wOut,
                   others, creator, summ, ledger>>

\* saveUser of the tokenInvalid mark (refresh failure or 401/403)
SyncSaveInvalid(p) ==
    /\ sync[p].pc = "saveInvalid"
    /\ integ' = MergeIntegration(integ, sync[p].user)
    /\ profile' = SaveProfile(profile, sync[p].profile)
    /\ failedMark' = (failedMark \/ sync[p].marked)
    /\ sync' = [sync EXCEPT ![p] =
         Finish([@ EXCEPT !.markSaved = TRUE], "needsReconnect", TRUE)]
    /\ UNCHANGED <<clock, oauthStates, nextState, nextTok, daily, cb, runs,
                   cbRuns, notes, lastNote, consumed, persisted, wIn, wOut,
                   others, creator, summ, ledger>>

\* step 5 and 6: GET /daily_sleep answers { data: [...] }; map; the empty
\* case sets lastSyncDate = new Date() before its saveUser
SyncFetchOK(p, resp) ==
    /\ sync[p].pc = "fetch"
    /\ resp.days \subseteq (sync[p].win[1]..sync[p].win[2])
    /\ LET raw == ProviderResponse(resp.days, resp.v, resp.rev, resp.bad)
           mapped == mapOuraDataToSleepData(raw)
           r == [sync[p] EXCEPT !.fetchCalls = @ + 1,
                                !.rawCount = Len(raw)]
       IN  sync' = [sync EXCEPT ![p] =
             IF mapped = <<>>
             THEN [r EXCEPT !.pc = "saveEmpty",
                            !.user = [@ EXCEPT !.lastSyncDate = clock]]
             ELSE [r EXCEPT !.pc = "parentSet", !.mapped = mapped]]
    /\ UNCHANGED <<clock, integ, oauthStates, nextState, nextTok, daily, cb,
                   runs, cbRuns, notes, lastNote, consumed, persisted, failedMark,
                   wIn, wOut, profile,
                   others, creator, summ, ledger>>

\* the provider answers 401 or 403
SyncFetchAuthFail(p) ==
    /\ sync[p].pc = "fetch"
    /\ sync' = [sync EXCEPT ![p] =
         [@ EXCEPT !.pc = "saveInvalid",
                   !.fetchCalls = @ + 1,
                   !.user = [@ EXCEPT !.tokenInvalid = TRUE]]]
    /\ UNCHANGED <<clock, integ, oauthStates, nextState, nextTok, daily, cb,
                   runs, cbRuns, notes, lastNote, consumed, persisted, failedMark,
                   wIn, wOut, profile,
                   others, creator, summ, ledger>>

SyncFetchSoftFailMutant(p, kind) ==
    /\ sync[p].pc = "fetch"
    /\ integ' = [integ EXCEPT !.tokenInvalid = TRUE]
    /\ sync' = [sync EXCEPT ![p] =
         Finish([@ EXCEPT !.fetchCalls = @ + 1], kind, FALSE)]
    /\ UNCHANGED <<clock, oauthStates, nextState, nextTok, daily, cb,
                   runs, cbRuns, notes, lastNote, consumed, persisted, failedMark,
                   wIn, wOut, profile,
                   others, creator, summ, ledger>>

\* 429, another status, a network error or a malformed body
SyncFetchSoftFail(p, kind) ==
    /\ sync[p].pc = "fetch"
    /\ sync' = [sync EXCEPT ![p] =
         Finish([@ EXCEPT !.fetchCalls = @ + 1], kind, FALSE)]
    /\ UNCHANGED <<clock, integ, oauthStates, nextState, nextTok, daily, cb,
                   runs, cbRuns, notes, lastNote, consumed, persisted, failedMark,
                   wIn, wOut, profile,
                   others, creator, summ, ledger>>

\* refreshAccessToken: decryptData of the stored refresh token throws
\* before the request is sent; the run's catch marks the local copy
SyncDecryptRefreshFail(p) ==
    /\ sync[p].pc = "refresh"
    /\ sync' = [sync EXCEPT ![p] =
         [@ EXCEPT !.pc = "saveInvalid",
                   !.decryptFailed = "refresh",
                   !.marked = TRUE,
                   !.user = [@ EXCEPT !.tokenInvalid = TRUE]]]
    /\ UNCHANGED <<clock, integ, oauthStates, nextState, nextTok, daily, cb,
                   runs, cbRuns, notes, lastNote, consumed, persisted, failedMark,
                   wIn, wOut, profile,
                   others, creator, summ, ledger>>

\* createOuraClient: decryptData of the stored access token throws; the
\* error has no `response`, so the fetch catch takes its last branch
SyncDecryptAccessFail(p) ==
    /\ sync[p].pc = "fetch"
    /\ sync' = [sync EXCEPT ![p] =
         Finish([@ EXCEPT !.decryptFailed = "access"], "softFailure", FALSE)]
    /\ UNCHANGED <<clock, integ, oauthStates, nextState, nextTok, daily, cb,
                   runs, cbRuns, notes, lastNote, consumed, persisted, failedMark,
                   wIn, wOut, profile,
                   others, creator, summ, ledger>>

\* saveUser after a fetch that yielded no processable record
SyncSaveEmpty(p) ==
    /\ sync[p].pc = "saveEmpty"
    /\ integ' = MergeIntegration(integ, sync[p].user)
    /\ profile' = SaveProfile(profile, sync[p].profile)
    /\ failedMark' = FALSE
    /\ sync' = [sync EXCEPT ![p] =
         Finish([@ EXCEPT !.bookkept = TRUE], "noData", FALSE)]
    /\ ledger' = Completed(ledger, sync[p].win)
    /\ UNCHANGED <<clock, oauthStates, nextState, nextTok, daily, cb, runs,
                   cbRuns, notes, lastNote, consumed, persisted, wIn, wOut,
                   others, creator, summ>>

\* step 7: parentRef.set, then the sort
SyncParentSet(p) ==
    /\ sync[p].pc = "parentSet"
    /\ sync' = [sync EXCEPT ![p] =
         [@ EXCEPT !.pc = "record", !.i = 1,
                   !.mapped = SortByDate(@)]]
    /\ UNCHANGED <<clock, integ, oauthStates, nextState, nextTok, daily, cb,
                   runs, cbRuns, notes, lastNote, consumed, persisted, failedMark,
                   wIn, wOut, profile,
                   others, creator, summ, ledger>>

\* after record i: the inner loop ends at the batch boundary
AfterRecord(r) ==
    IF r.i % BATCH_SIZE = 0 \/ r.i = Len(r.mapped)
    THEN [r EXCEPT !.pc = "commit"]
    ELSE [r EXCEPT !.i = @ + 1]

\* docRef.get() resolves: preserve, batch.set, processedCount++
SyncRecord(p) ==
    /\ sync[p].pc = "record"
    /\ LET m == sync[p].mapped[sync[p].i]
           existing == daily[m.day]
           keep == Preserved(existing)
           w == [day |-> m.day, score |-> m.ouraScore, metrics |-> m.metrics,
                 tags |-> keep.tags, notes |-> keep.notes,
                 existed |-> existing.exists,
                 seenTags |-> existing.tags, seenNotes |-> existing.notes]
       IN  sync' = [sync EXCEPT ![p] =
             AfterRecord([@ EXCEPT !.batch = Append(@, w),
                                   !.items = @ + 1,
                                   !.dirty = @ \ {m.day},
                                   !.processed = @ + 1])]
    /\ UNCHANGED <<clock, integ, oauthStates, nextState, nextTok, daily, cb,
                   runs, cbRuns, notes, lastNote, consumed, persisted, failedMark,
                   wIn, wOut, profile,
                   others, creator, summ, ledger>>

\* docRef.get() rejects: errorCount++
SyncRecordFail(p) ==
    /\ sync[p].pc = "record"
    /\ sync' = [sync EXCEPT ![p] =
         AfterRecord([@ EXCEPT !.items = @ + 1, !.errors = @ + 1])]
    /\ UNCHANGED <<clock, integ, oauthStates, nextState, nextTok, daily, cb,
                   runs, cbRuns, notes, lastNote, consumed, persisted, failedMark,
                   wIn, wOut, profile,
                   others, creator, summ, ledger>>

\* after a commit attempt: next batch, or step 8
AfterCommit(r) ==
    IF r.i < Len(r.mapped)
    THEN [r EXCEPT !.pc = "record", !.i = @ + 1, !.batch = <<>>, !.items = 0]
    ELSE [r EXCEPT !.pc = "meta", !.batch = <<>>, !.items = 0]

\* the processed / failed counters after a failed commit
CountFailedBatch(r) ==
    [r EXCEPT !.errors = @ + r.items, !.processed = @ - r.items]

\* batch.commit() resolves
SyncCommit(p) ==
    /\ sync[p].pc = "commit"
    /\ daily' = ApplyBatch(daily, sync[p].batch)
    /\ sync' = [q \in SyncProcs |->
         IF q = p
         THEN AfterCommit([sync[p] EXCEPT
                !.committed = sync[p].batch,
                !.outcomes = Append(@, [items |-> sync[p].items,
                                        written |-> Len(sync[p].batch),
                                        ok |-> TRUE])])
         ELSE Touch(sync[q], BatchDays(sync[p].batch))]
    /\ ledger' = [ledger EXCEPT !.failed = @ \ BatchDays(sync[p].batch)]
    /\ UNCHANGED <<clock, integ, oauthStates, nextState, nextTok, cb, runs,
                   cbRuns, notes, lastNote, consumed, persisted, failedMark,
                   wIn, wOut, profile,
                   others, creator, summ>>

\* batch.commit() rejects
SyncCommitFail(p) ==
    /\ sync[p].pc = "commit"
    /\ sync' = [sync EXCEPT ![p] =
         AfterCommit(CountFailedBatch([@ EXCEPT
                !.committed = <<>>,
                !.outcomes = Append(@, [items |-> sync[p].items,
                                        written |-> Len(sync[p].batch),
                                        ok |-> FALSE])]))]
    /\ ledger' = [ledger EXCEPT !.failed = @ \cup BatchDays(sync[p].batch)]
    /\ UNCHANGED <<clock, integ, oauthStates, nextState, nextTok, daily, cb,
                   runs, cbRuns, notes, lastNote, consumed, persisted, failedMark,
                   wIn, wOut, profile,
                   others, creator, summ>>

\* the local copy a run saves in step 8
Bookkeeping(u, t) ==
    [u EXCEPT !.lastSyncDate = t, !.tokenInvalid = FALSE]

\* step 8: parentRef.update resolves; lastSyncDate = new Date()
SyncMeta(p) ==
    /\ sync[p].pc = "meta"
    /\ sync' = [sync EXCEPT ![p] =
         [@ EXCEPT !.pc = "saveSync", !.user = Bookkeeping(@, clock)]]
    /\ UNCHANGED <<clock, integ, oauthStates, nextState, nextTok, daily, cb,
                   runs, cbRuns, notes, lastNote, consumed, persisted, failedMark,
                   wIn, wOut, profile,
                   others, creator, summ, ledger>>

\* saveUser of the bookkeeping resolves; steps 9 and 10
SyncSaveSync(p) ==
    /\ sync[p].pc = "saveSync"
    /\ integ' = MergeIntegration(integ, sync[p].user)
    /\ profile' = SaveProfile(profile, sync[p].profile)
    /\ failedMark' = FALSE
    /\ summ' = FireSummary(summ)
    /\ sync' = [sync EXCEPT ![p] =
         Finish([@ EXCEPT !.bookkept = TRUE, !.summary = "fired"],
                "synced", FALSE)]
    /\ ledger' = Completed(ledger, sync[p].win)
    /\ UNCHANGED <<clock, oauthStates, nextState, nextTok, daily, cb, runs,
                   cbRuns, notes, lastNote, consumed, persisted, wIn, wOut,
                   others, creator>>

\* step 9: the promise of updateSleepSummaries settles after the response
SyncSummary(p, ok) ==
    /\ sync[p].summary = "fired"
    /\ sync' = [sync EXCEPT ![p] =
         [@ EXCEPT !.summary = IF ok THEN "resolved" ELSE "rejected"]]
    /\ UNCHANGED <<clock, integ, oauthStates, nextState, nextTok, daily, cb,
                   runs, cbRuns, notes, lastNote, consumed, persisted, failedMark,
                   wIn, wOut, profile,
                   others, creator, summ, ledger>>

\* updateSleepSummaries: the query of the daily collection resolves; with
\* no usable document the function returns null and writes nothing
SummaryRead(j) ==
    /\ j \in summ.jobs
    /\ j.pc = "fired"
    /\ LET docs == SummaryDocs(daily)
       IN  summ' = [summ EXCEPT !.jobs =
             IF docs = <<>> THEN @ \ {j}
             ELSE (@ \ {j}) \cup {[j EXCEPT !.pc = "read",
                      !.snap = SummaryToFirestore(docs, clock)]}]
    /\ UNCHANGED <<clock, integ, oauthStates, nextState, nextTok, daily,
                   sync, cb, runs, cbRuns, notes, lastNote, consumed,
                   persisted, failedMark, wIn, wOut, profile, others,
                   creator, ledger>>

\* updateSleepSummaries: the set of sleepSummaries/{userId} resolves
SummaryWrite(j) ==
    /\ j \in summ.jobs
    /\ j.pc = "read"
    /\ summ' = [summ EXCEPT !.jobs = @ \ {j},
                            !.doc = MergeSummary(@, j.snap),
                            !.prev = summ.doc,
                            !.written = j.snap,
                            !.writes = @ + 1]
    /\ UNCHANGED <<clock, integ, oauthStates, nextState, nextTok, daily,
                   sync, cb, runs, cbRuns, notes, lastNote, consumed,
                   persisted, failedMark, wIn, wOut, profile, others,
                   creator, ledger>>

\* the HTTP status of the answer of a run
StatusOfMutant(res) ==
    IF res \in {"rateLimited", "softFailure"} THEN 502 ELSE 200

StatusOf(res) ==
    CASE res = "skipped" -> 200
      [] res = "needsReconnect" -> 200
      [] res = "upToDate" -> 200
      [] res = "rateLimited" -> 200
      [] res = "softFailure" -> 200
      [] res = "noData" -> 200
      [] res = "synced" -> 200
      [] OTHER -> 500

\* the response is sent; the handler can serve the next request
SyncReturn(p) ==
    /\ sync[p].pc = "done"
    /\ sync' = [sync EXCEPT ![p] = SyncIdle]
    /\ UNCHANGED <<clock, integ, oauthStates, nextState, nextTok, daily, cb,
                   runs, cbRuns, notes, lastNote, consumed, persisted, failedMark,
                   wIn, wOut, profile,
                   others, creator, summ, ledger>>

\* ------------------------------------------------------ OAuth flow
NoState ==
    [exists |-> FALSE, expires |-> NoDate, userId |-> "none", uidLength |-> 0,
     validations |-> 0]

\* lengths of the userId an authenticated initiator can have
UserIdLengths == {8, 28}

MinUserIdLength == 20

CbIdle ==
    [pc |-> "idle", state |-> 0, userId |-> "none", tok |-> 0,
     result |-> "none", exchanges |-> 0, late |-> FALSE]

\* const userId = stateData.userId
StateUserMutant(st) ==
    Me

StateUser(st) ==
    st.userId

\* firestore.collection('oauthStates').doc(state).delete()
DeleteStateMutant(states, s) ==
    states

DeleteState(states, s) ==
    [states EXCEPT ![s] = NoState]

\* initiateOuraOAuth: a fresh state value (uuid nonce), 10 minutes to live
InitiateOuraOAuth(u, len) ==
    /\ nextState <= MaxStates
    /\ oauthStates' = [oauthStates EXCEPT ![nextState] =
         [exists |-> TRUE, expires |-> clock + StateLifeTicks,
          userId |-> u, uidLength |-> len, validations |-> 0]]
    /\ creator' = [creator EXCEPT ![nextState] = u]
    /\ nextState' = nextState + 1
    /\ UNCHANGED <<clock, integ, nextTok, daily, sync, cb, runs, cbRuns,
                   notes, lastNote, consumed, persisted, failedMark,
                   wIn, wOut, profile, others, summ, ledger>>

CbFinish(r, res) ==
    [r EXCEPT !.pc = "done", !.result = res]

\* handleOuraOAuthCallback: read the state record, validate it
CbStart(c, s) ==
    /\ cb[c].pc = "idle"
    /\ cbRuns > 0
    /\ cbRuns' = cbRuns - 1
    /\ LET st == oauthStates[s]
           r == [cb[c] EXCEPT !.state = s, !.late = (s \in consumed),
                              !.userId = StateUser(st)]
           valid == st.exists /\ clock <= st.expires
       IN  /\ cb' = [cb EXCEPT ![c] =
                IF ~st.exists THEN CbFinish(r, "invalidState")
                ELSE IF clock > st.expires
                THEN [r EXCEPT !.pc = "deleteExpired"]
                ELSE IF st.uidLength < MinUserIdLength
                THEN CbFinish(r, "invalidUser")
                ELSE [r EXCEPT !.pc = "exchange"]]
           /\ oauthStates' = IF valid
                THEN [oauthStates EXCEPT ![s].validations = @ + 1]
                ELSE oauthStates
    /\ UNCHANGED <<clock, integ, nextState, nextTok, daily,
                   sync, runs, notes, lastNote, consumed, persisted,
                   failedMark, wIn, wOut, profile,
                   others, creator, summ, ledger>>

CbDeleteExpiredMutant(c) ==
    /\ cb[c].pc = "deleteExpired"
    /\ cb' = [cb EXCEPT ![c] = CbFinish(@, "invalidState")]
    /\ UNCHANGED <<clock, integ, oauthStates, nextState, nextTok, daily, sync,
                   runs, cbRuns, notes, lastNote, consumed, persisted,
                   failedMark, wIn, wOut, profile,
                   others, creator, summ, ledger>>

\* the expired state record is deleted, the callback rejected
CbDeleteExpired(c) ==
    /\ cb[c].pc = "deleteExpired"
    /\ oauthStates' = DeleteState(oauthStates, cb[c].state)
    /\ cb' = [cb EXCEPT ![c] = CbFinish(@, "invalidState")]
    /\ UNCHANGED <<clock, integ, nextState, nextTok, daily, sync, runs,
                   cbRuns, notes, lastNote, consumed, persisted, failedMark,
                   wIn, wOut, profile,
                   others, creator, summ, ledger>>

\* exchangeCodeForToken resolves with a token pair
CbExchangeOK(c) ==
    /\ cb[c].pc = "exchange"
    /\ nextTok <= MaxTokens
    /\ nextTok' = nextTok + 1
    /\ cb' = [cb EXCEPT ![c] =
         [@ EXCEPT !.pc = "persist", !.tok = nextTok, !.exchanges = @ + 1]]
    /\ UNCHANGED <<clock, integ, oauthStates, nextState, daily, sync, runs,
                   cbRuns, notes, lastNote, consumed, persisted, failedMark,
                   wIn, wOut, profile,
                   others, creator, summ, ledger>>

\* exchangeCodeForToken rejects: the outer catch redirects with an error
CbExchangeFail(c) ==
    /\ cb[c].pc = "exchange"
    /\ cb' = [cb EXCEPT ![c] =
         CbFinish([@ EXCEPT !.exchanges = @ + 1], "failed")]
    /\ UNCHANGED <<clock, integ, oauthStates, nextState, nextTok, daily,
                   sync, runs, cbRuns, notes, lastNote, consumed, persisted,
                   failedMark, wIn, wOut, profile,
                   others, creator, summ, ledger>>

\* the transaction commits the ouraIntegration object
CbPersist(c) ==
    /\ cb[c].pc = "persist"
    /\ LET u == cb[c].userId
       IN  IF u = Me
           THEN /\ integ' = ConnectedIntegration(integ, cb[c].tok, clock)
                /\ failedMark' = FALSE
                /\ others' = others
           ELSE /\ others' = [others EXCEPT ![u] =
                     ConnectedIntegration(@, cb[c].tok, clock)]
                /\ UNCHANGED <<integ, failedMark, summ, ledger>>
    /\ persisted' = [persisted EXCEPT ![cb[c].state] = @ + 1]
    /\ cb' = [cb EXCEPT ![c] = [@ EXCEPT !.pc = "delete"]]
    /\ UNCHANGED <<clock, oauthStates, nextState, nextTok, daily, sync, runs,
                   cbRuns, notes, lastNote, consumed, wIn, wOut, profile,
                   creator, summ, ledger>>

\* the transaction throws: error redirect, the state record is left
CbPersistFail(c) ==
    /\ cb[c].pc = "persist"
    /\ cb' = [cb EXCEPT ![c] = CbFinish(@, "failed")]
    /\ UNCHANGED <<clock, integ, oauthStates, nextState, nextTok, daily,
                   sync, runs, cbRuns, notes, lastNote, consumed, persisted,
                   failedMark, wIn, wOut, profile,
                   others, creator, summ, ledger>>

\* the used state record is deleted, success redirect
CbDelete(c) ==
    /\ cb[c].pc = "delete"
    /\ oauthStates' = DeleteState(oauthStates, cb[c].state)
    /\ consumed' = consumed \cup {cb[c].state}
    /\ cb' = [cb EXCEPT ![c] = CbFinish(@, "success")]
    /\ UNCHANGED <<clock, integ, nextState, nextTok, daily, sync, runs,
                   cbRuns, notes, lastNote, persisted, failedMark,
                   wIn, wOut, profile,
                   others, creator, summ, ledger>>

CbReturn(c) ==
    /\ cb[c].pc = "done"
    /\ cb' = [cb EXCEPT ![c] = CbIdle]
    /\ UNCHANGED <<clock, integ, oauthStates, nextState, nextTok, daily,
                   sync, runs, cbRuns, notes, lastNote, consumed, persisted,
                   failedMark, wIn, wOut, profile,
                   others, creator, summ, ledger>>

\* disconnectOuraIntegration: the transaction replaces ouraIntegration
DisconnectOuraIntegration ==
    /\ integ # DisconnectedIntegration
    /\ integ' = DisconnectedIntegration
    /\ failedMark' = FALSE
    /\ UNCHANGED <<clock, oauthStates, nextState, nextTok, daily, sync, cb,
                   runs, cbRuns, notes, lastNote, consumed, persisted,
                   wIn, wOut, profile,
                   others, creator, summ, ledger>>

\* ---------------------------------------------------- addSleepNote
\* docRef.set(updateData, { merge: true }) with note and/or tags given
AddSleepNote(d, note, tags) ==
    /\ notes > 0
    /\ note # Absent \/ tags # Absent
    /\ notes' = notes - 1
    /\ daily' = [daily EXCEPT ![d] =
         [@ EXCEPT !.exists = TRUE,
                   !.notes = IF note # Absent THEN note ELSE @,
                   !.tags = IF tags # Absent THEN tags ELSE @]]
    /\ lastNote' = [lastNote EXCEPT ![d] =
         [notes |-> IF note # Absent THEN note ELSE @.notes,
          tags |-> IF tags # Absent THEN tags ELSE @.tags]]
    /\ sync' = [q \in SyncProcs |-> Touch(sync[q], {d})]
    /\ UNCHANGED <<clock, integ, oauthStates, nextState, nextTok, cb, runs,
                   cbRuns, consumed, persisted, failedMark, wIn, wOut, profile,
                   others, creator, summ, ledger>>

\* updateUserProfile / updateNotificationPreferences: userRef.update
UpdateUserProfile(v) ==
    /\ profile.left > 0
    /\ profile' = [stored |-> v, updated |-> v, left |-> profile.left - 1]
    /\ UNCHANGED <<clock, integ, oauthStates, nextState, nextTok, daily, sync,
                   cb, runs, cbRuns, notes, lastNote, consumed, persisted,
                   failedMark, wIn, wOut,
                   others, creator, summ, ledger>>

\* time passes
Tick ==
    /\ clock < ClockStart + MaxTicks
    /\ clock' = clock + 1
    /\ UNCHANGED <<integ, oauthStates, nextState, nextTok, daily, sync, cb,
                   runs, cbRuns, notes, lastNote, consumed, persisted,
                   failedMark, wIn, wOut, profile,
                   others, creator, summ, ledger>>

MaxDays == 2

\* time passes to the next UTC midnight
NextDay ==
    /\ DayOf(clock) < Today0 + MaxDays
    /\ clock' = (DayOf(clock) + 1) * TicksPerDay
    /\ UNCHANGED <<integ, oauthStates, nextState, nextTok, daily, sync, cb,
                   runs, cbRuns, notes, lastNote, consumed, persisted,
                   failedMark, wIn, wOut, profile, others, creator, summ,
                   ledger>>

\* ------------------------------------------------ the fetch window
NoWindow == <<0, 0>>

WindowSpread == 2

WindowNowDays ==
    {DayNum(2024, 1, 15), DayNum(2024, 3, 31), DayNum(2024, 8, 31),
     DayNum(2025, 8, 30)}

Instants(days) ==
    {d * TicksPerDay + k : d \in days, k \in 0..(TicksPerDay - 1)}

\* lastSyncDate values around the two ends of the lookback
WindowLasts(now) ==
    LET six == DayOf(SubtractMonths(now, LookbackMonths))
    IN  {NoDate}
        \cup Instants((six - WindowSpread)..(six + WindowSpread))
        \cup Instants((DayOf(now) - WindowSpread - 3)..DayOf(now))

ComputeWindow ==
    /\ wOut = NoWindow
    /\ wIn.now # NoDate
    /\ wOut' = SyncWindow(wIn.last, wIn.now)
    /\ UNCHANGED <<clock, integ, oauthStates, nextState, nextTok, daily,
                   sync, cb, runs, cbRuns, notes, lastNote, consumed,
                   persisted, failedMark, wIn, profile,
                   others, creator, summ, ledger>>

\* ------------------------------------------------ the mapper on its own
MaxMapRecords == 2

\* raw documents: `contributors` is contributors.total_sleep, a percentage
MapperRecords ==
    [day : {Absent, Unparseable, Today0}, score : {Absent, 80},
     total_sleep_duration : {Absent, 25200},
     contributors : {Absent, 50, 100}]

RECURSIVE RawListsOfLen(_)
RawListsOfLen(n) ==
    IF n = 0 THEN {<<>>}
    ELSE {Append(l, r) : l \in RawListsOfLen(n - 1), r \in MapperRecords}

\* the mapper returns the array only: the records it drops are logged and
\* nothing counts them (errorCount starts at 0 after the mapping)
MappingErrors(raw) == 0

NoMapped == [done |-> FALSE, mapped |-> <<>>, mappingErrors |-> 0]

MapRecords ==
    /\ ~wOut.done
    /\ wOut' = [done |-> TRUE, mapped |-> mapOuraDataToSleepData(wIn),
                mappingErrors |-> MappingErrors(wIn)]
    /\ UNCHANGED <<clock, integ, oauthStates, nextState, nextTok, daily,
                   sync, cb, runs, cbRuns, notes, lastNote, consumed,
                   persisted, failedMark, wIn, profile, others, creator, summ,
                   ledger>>

\* ------------------------------------------------ streaks
MaxScores == 5

Scores == {60, 80, 85, 90, 95}
Thresholds == {75, 90}

RECURSIVE ScoreListsOfLen(_)
ScoreListsOfLen(n) ==
    IF n = 0 THEN {<<>>}
    ELSE {Append(l, v) : l \in ScoreListsOfLen(n - 1), v \in Scores}

\* the forEach of calculateStreak from document i on; a document's date is
\* its position and 0 is null
RECURSIVE StreakLoop(_, _, _, _)
StreakLoop(docs, i, st, threshold) ==
    IF i > Len(docs) THEN st
    ELSE IF docs[i] >= threshold
    THEN StreakLoop(docs, i + 1,
                    [st EXCEPT !.current = @ + 1,
                               !.start = IF st.current = 0 THEN i ELSE @],
                    threshold)
    ELSE StreakLoop(docs, i + 1,
                    [current |-> 0, start |-> 0,
                     longest |-> Max(st.current, st.longest),
                     longestStart |-> IF st.current > st.longest
                                      THEN st.start ELSE st.longestStart,
                     longestEnd |-> IF st.current > st.longest
                                    THEN i - 1 ELSE st.longestEnd],
                    threshold)

StreakStart ==
    [current |-> 0, start |-> 0, longest |-> 0, longestStart |-> 0,
     longestEnd |-> 0]

calculateStreakMutant(sortedDocs, threshold) ==
    LET st == StreakLoop(sortedDocs, 1, StreakStart, threshold)
    IN  IF sortedDocs = <<>>
        THEN [current |-> 0, longest |-> 0, longestStartDate |-> 0,
              longestEndDate |-> 0]
        ELSE [current |-> IF sortedDocs[Len(sortedDocs)] >= threshold
                          THEN st.current ELSE 0,
              longest |-> st.longest,
              longestStartDate |-> st.longestStart,
              longestEndDate |-> st.longestEnd]

calculateStreak(sortedDocs, threshold) ==
    LET st == StreakLoop(sortedDocs, 1, StreakStart, threshold)
        last == st.current > st.longest
    IN  IF sortedDocs = <<>>
        THEN [current |-> 0, longest |-> 0, longestStartDate |-> 0,
              longestEndDate |-> 0]
        ELSE [current |-> IF sortedDocs[Len(sortedDocs)] >= threshold
                          THEN st.current ELSE 0,
              longest |-> IF last THEN st.current ELSE st.longest,
              longestStartDate |-> IF last THEN st.start
                                   ELSE st.longestStart,
              longestEndDate |-> IF last THEN Len(sortedDocs)
                                 ELSE st.longestEnd]

NoStreak == [done |-> FALSE, streak |-> StreakStart]

ComputeStreak ==
    /\ ~wOut.done
    /\ wOut' = [done |-> TRUE,
                streak |-> calculateStreak(wIn.scores, wIn.threshold)]
    /\ UNCHANGED <<clock, integ, oauthStates, nextState, nextTok, daily,
                   sync, cb, runs, cbRuns, notes, lastNote, consumed,
                   persisted, failedMark, wIn, profile, others, creator, summ,
                   ledger>>

\* ------------------------------------------------ token encryption
\* strings are sequences of characters; "insecure" stands for the eight
\* characters of the prefix word
MaxTextLen == 3

Alphabet == {"a", ":"}

RECURSIVE TextsOfLen(_)
TextsOfLen(n) ==
    IF n = 0 THEN {<<>>}
    ELSE {Append(t, ch) : t \in TextsOfLen(n - 1), ch \in Alphabet}

Plaintexts == UNION {TextsOfLen(n) : n \in 0..MaxTextLen}

\* cipher.update(data, 'utf8', 'hex'): two hex digits per character
HexOf(ch) == IF ch = ":" THEN <<"3", "a">> ELSE <<"6", "1">>

RECURSIVE ToHex(_)
ToHex(s) ==
    IF s = <<>> THEN <<>> ELSE HexOf(Head(s)) \o ToHex(Tail(s))

\* decipher.update(encrypted, 'hex', 'utf8')
RECURSIVE FromHex(_)
FromHex(h) ==
    IF Len(h) < 2 THEN <<>>
    ELSE <<(IF <<h[1], h[2]>> = <<"3", "a">> THEN ":" ELSE "a")>>
         \o FromHex(SubSeq(h, 3, Len(h)))

\* cipher.getAuthTag(): a digest of the ciphertext under the key
AuthTag(h) == IF (Len(h) \div 2) % 2 = 0 THEN "0" ELSE "1"

\* String.prototype.split(':')
RECURSIVE SplitFrom(_, _, _)
SplitFrom(s, cur, acc) ==
    IF s = <<>> THEN Append(acc, cur)
    ELSE IF Head(s) = ":" THEN SplitFrom(Tail(s), <<>>, Append(acc, cur))
    ELSE SplitFrom(Tail(s), Append(cur, Head(s)), acc)

Split(s) == SplitFrom(s, <<>>, <<>>)

StartsWithInsecure(s) == Len(s) >= 2 /\ s[1] = "insecure" /\ s[2] = ":"

encryptData(hasKey, iv, data) ==
    IF ~hasKey THEN <<"insecure", ":">> \o data
    ELSE <<iv, ":", AuthTag(ToHex(data)), ":">> \o ToHex(data)

Thrown == <<"Failed to retrieve sensitive data">>

decryptData(hasKey, encryptedData) ==
    IF ~hasKey THEN Split(encryptedData)[2]
    ELSE IF StartsWithInsecure(encryptedData)
         THEN SubSeq(encryptedData, 3, Len(encryptedData))
    ELSE LET parts == Split(encryptedData)
         IN  IF Len(parts) < 3 \/ Len(parts[2]) # 1
                \/ parts[2][1] # AuthTag(parts[3])
             THEN Thrown
             ELSE FromHex(parts[3])

NoText == [stage |-> "plain", stored |-> <<>>, read |-> <<>>]

EncryptToken ==
    /\ wOut.stage = "plain"
    /\ wOut' = [wOut EXCEPT !.stage = "stored",
                            !.stored = encryptData(wIn.hasKey, wIn.iv,
                                                   wIn.data)]
    /\ UNCHANGED <<clock, integ, oauthStates, nextState, nextTok, daily,
                   sync, cb, runs, cbRuns, notes, lastNote, consumed,
                   persisted, failedMark, wIn, profile, others, creator, summ,
                   ledger>>

DecryptToken ==
    /\ wOut.stage = "stored"
    /\ wOut' = [wOut EXCEPT !.stage = "read",
                            !.read = decryptData(wIn.hasKey, wOut.stored)]
    /\ UNCHANGED <<clock, integ, oauthStates, nextState, nextTok, daily,
                   sync, cb, runs, cbRuns, notes, lastNote, consumed,
                   persisted, failedMark, wIn, profile, others, creator, summ,
                   ledger>>

\* ------------------------------------------------ the stored expiry
\* all in seconds
CallbackMarginSeconds == 300
RefreshMarginSeconds == 600

\* handleOuraOAuthCallback: new Date(Date.now() + (expires_in - 300) * 1000)
CallbackExpiresAt(now, expiresIn) ==
    now + (expiresIn - CallbackMarginSeconds)

\* syncOuraData: new Date(now.getTime() + (expires_in - 600) * 1000)
RefreshExpiresAt(now, expiresIn) ==
    now + (expiresIn - RefreshMarginSeconds)

MaxDelaySeconds == 2

\* nothing computed yet
NoExpiry == [opTime |-> 0, expiresAt |-> 0]

IssueTimes == {1000, 2000, 3000}
ExpiresIns == {300, 600, 3600, 86400}

\* the clock reading the code uses: the callback reads Date.now() in the
\* transaction, after the exchange answered; the run reads `now` before it
\* sends the refresh request
OperationTime(in) ==
    IF in.op = "callback" THEN in.issued + in.delay ELSE in.issued - in.delay

ComputeExpiry ==
    /\ wOut = NoExpiry
    /\ wOut' = [opTime |-> OperationTime(wIn),
                expiresAt |-> IF wIn.op = "callback"
                              THEN CallbackExpiresAt(OperationTime(wIn),
                                                     wIn.expiresIn)
                              ELSE RefreshExpiresAt(OperationTime(wIn),
                                                    wIn.expiresIn)]
    /\ UNCHANGED <<clock, integ, oauthStates, nextState, nextTok, daily,
                   sync, cb, runs, cbRuns, notes, lastNote, consumed,
                   persisted, failedMark, wIn, profile, others, creator, summ,
                   ledger>>

\* ---------------------------------------------------- specifications
InitStore ==
    /\ clock = ClockStart
    /\ oauthStates = [s \in StateIds |-> NoState]
    /\ nextTok = 2
    /\ daily = [d \in Days |-> NoDoc]
    /\ sync = [p \in SyncProcs |-> SyncIdle]
    /\ cb = [c \in CbProcs |-> CbIdle]
    /\ lastNote = [d \in Days |-> [notes |-> Absent, tags |-> Absent]]
    /\ consumed = {}
    /\ persisted = [s \in StateIds |-> 0]
    /\ failedMark = FALSE
    /\ others = [u \in Users \ {Me} |-> DisconnectedIntegration]
    /\ creator = [s \in StateIds |-> "none"]
    /\ summ = NoSummaries
    /\ ledger = NoLedger

\* a user who connected earlier; the token is fresh or already expired
InitConnected ==
    \E e \in {ClockStart, ClockStart + TokenLifeTicks} :
        integ = [connected |-> TRUE, accessToken |-> 1, refreshToken |-> 1,
                 expiresAt |-> e, tokenInvalid |-> FALSE,
                 lastSyncDate |-> NoDate]

NoWindowInput ==
    /\ wIn = [last |-> NoDate, now |-> NoDate]
    /\ wOut = NoWindow

\* provider answers: documents for a run of consecutive days
Ranges(days) ==
    {{}} \cup {a..b : a \in days, b \in days}

Responses(days, versions, orders, bads) ==
    [days : Ranges(days), v : versions, rev : orders, bad : bads]

SyncStep(p, responses) ==
    \/ SyncStart(p)
    \/ SyncRefreshOK(p)
    \/ SyncRefreshFail(p)
    \/ SyncSaveRefreshed(p)
    \/ SyncSaveInvalid(p)
    \/ \E resp \in responses : SyncFetchOK(p, resp)
    \/ SyncFetchAuthFail(p)
    \/ \E kind \in {"rateLimited", "softFailure"} : SyncFetchSoftFail(p, kind)
    \/ SyncSaveEmpty(p)
    \/ SyncParentSet(p)
    \/ SyncRecord(p)
    \/ SyncRecordFail(p)
    \/ SyncCommit(p)
    \/ SyncCommitFail(p)
    \/ SyncMeta(p)
    \/ SyncSaveSync(p)
    \/ \E ok \in BOOLEAN : SyncSummary(p, ok)
    \/ SyncReturn(p)

CbStep(c) ==
    \/ \E s \in StateIds : CbStart(c, s)
    \/ CbDeleteExpired(c)
    \/ CbExchangeOK(c)
    \/ CbExchangeFail(c)
    \/ CbPersist(c)
    \/ CbPersistFail(c)
    \/ CbDelete(c)
    \/ CbReturn(c)

\* the merge-upsert of one run against note edits
InitMerge ==
    /\ InitStore
    /\ profile = ProfileInit(0)
    /\ InitConnected
    /\ NoWindowInput
    /\ nextState = 1
    /\ runs = 1
    /\ cbRuns = 0
    /\ notes = MaxNotes

NextMerge ==
    \/ SyncStep("s1", Responses(PastDays(MaxMergeRecords), 1..MaxVersion,
                                {FALSE}, {0}))
    \/ \E d \in PastDays(MaxMergeRecords), n \in {Absent} \cup 1..MaxNoteVal,
          t \in {Absent} \cup 1..MaxNoteVal : AddSleepNote(d, n, t)

SpecMerge ==
    InitMerge /\ [][NextMerge]_vars

\* one run over several write batches
InitBatch ==
    /\ InitStore
    /\ profile = ProfileInit(0)
    /\ InitConnected
    /\ NoWindowInput
    /\ nextState = 1
    /\ runs = 1
    /\ cbRuns = 0
    /\ notes = 0

NextBatch ==
    SyncStep("s1", Responses(DaysUpTo(MaxBatchRecords), {1}, BOOLEAN,
                             0..MaxBad))

SpecBatch ==
    InitBatch /\ [][NextBatch]_vars

\* the OAuth state records: initiations, two callbacks, time
InitOAuth ==
    /\ InitStore
    /\ profile = ProfileInit(0)
    /\ integ = DisconnectedIntegration
    /\ NoWindowInput
    /\ nextState = 1
    /\ runs = 0
    /\ cbRuns = MaxCallbacks
    /\ notes = 0

NextOAuth ==
    \/ \E len \in UserIdLengths : InitiateOuraOAuth(Me, len)
    \/ \E c \in CbProcs : CbStep(c)
    \/ DisconnectOuraIntegration
    \/ Tick

SpecOAuth ==
    InitOAuth /\ [][NextOAuth]_vars

\* the token lifecycle of one user: runs of one handler,
\* re-authorization, disconnect, time
InitLifecycle ==
    /\ InitStore
    /\ profile = ProfileInit(0)
    /\ InitConnected
    /\ NoWindowInput
    /\ nextState = MaxStates
    /\ runs = MaxRuns
    /\ cbRuns = 1
    /\ notes = 0

NextLifecycle ==
    \/ InitiateOuraOAuth(Me, 28)
    \/ CbStep("c1")
    \/ SyncStep("s1", Responses(PastDays(MaxAuthRecords), {1}, {FALSE}, {0}))
    \/ DisconnectOuraIntegration
    \/ Tick

SpecLifecycle ==
    InitLifecycle /\ [][NextLifecycle]_vars

\* two concurrent runs of one user, one per handler
InitToken ==
    /\ InitStore
    /\ profile = ProfileInit(0)
    /\ InitConnected
    /\ NoWindowInput
    /\ nextState = 1
    /\ runs = 2
    /\ cbRuns = 0
    /\ notes = 0

NextToken ==
    \/ \E p \in SyncProcs :
          SyncStep(p, Responses(PastDays(MaxAuthRecords), {1}, {FALSE}, {0}))
    \/ DisconnectOuraIntegration
    \/ Tick

SpecToken ==
    InitToken /\ [][NextToken]_vars

\* one run against profile updates of the same user
InitProfile ==
    /\ InitStore
    /\ profile = ProfileInit(MaxProfileUpdates)
    /\ InitConnected
    /\ NoWindowInput
    /\ nextState = 1
    /\ runs = 1
    /\ cbRuns = 0
    /\ notes = 0

NextProfile ==
    \/ SyncStep("s1", Responses(PastDays(MaxAuthRecords), {1}, {FALSE}, {0}))
    \/ \E v \in 1..MaxProfileVal : UpdateUserProfile(v)

SpecProfile ==
    InitProfile /\ [][NextProfile]_vars

\* two users initiating, callbacks with any state value
InitOwner ==
    /\ InitStore
    /\ profile = ProfileInit(0)
    /\ integ = DisconnectedIntegration
    /\ NoWindowInput
    /\ nextState = 1
    /\ runs = 0
    /\ cbRuns = MaxCallbacks
    /\ notes = 0

NextOwner ==
    \/ \E u \in Users : InitiateOuraOAuth(u, 28)
    \/ \E c \in CbProcs : CbStep(c)
    \/ Tick

SpecOwner ==
    InitOwner /\ [][NextOwner]_vars

\* the expiry computation on its own
InitExpiry ==
    /\ InitStore
    /\ profile = ProfileInit(0)
    /\ integ = DisconnectedIntegration
    /\ nextState = 1
    /\ runs = 0
    /\ cbRuns = 0
    /\ notes = 0
    /\ wOut = NoExpiry
    /\ wIn \in [op : {"callback", "refresh"}, issued : IssueTimes,
                delay : 0..MaxDelaySeconds, expiresIn : ExpiresIns]

NextExpiry ==
    ComputeExpiry

SpecExpiry ==
    InitExpiry /\ [][NextExpiry]_vars

\* encryption and decryption of one string on their own
InitCrypto ==
    /\ InitStore
    /\ profile = ProfileInit(0)
    /\ integ = DisconnectedIntegration
    /\ nextState = 1
    /\ runs = 0
    /\ cbRuns = 0
    /\ notes = 0
    /\ wOut = NoText
    /\ wIn \in [hasKey : BOOLEAN, iv : {"0", "f"}, data : Plaintexts]

NextCrypto ==
    \/ EncryptToken
    \/ DecryptToken

SpecCrypto ==
    InitCrypto /\ [][NextCrypto]_vars

\* the mapper on its own
InitMapper ==
    /\ InitStore
    /\ profile = ProfileInit(0)
    /\ integ = DisconnectedIntegration
    /\ nextState = 1
    /\ runs = 0
    /\ cbRuns = 0
    /\ notes = 0
    /\ wOut = NoMapped
    /\ wIn \in UNION {RawListsOfLen(n) : n \in 0..MaxMapRecords}

NextMapper ==
    MapRecords

SpecMapper ==
    InitMapper /\ [][NextMapper]_vars

\* the streak computation on its own
InitStreak ==
    /\ InitStore
    /\ profile = ProfileInit(0)
    /\ integ = DisconnectedIntegration
    /\ nextState = 1
    /\ runs = 0
    /\ cbRuns = 0
    /\ notes = 0
    /\ wOut = NoStreak
    /\ wIn \in [scores : UNION {ScoreListsOfLen(n) : n \in 0..MaxScores},
                threshold : Thresholds]

NextStreak ==
    ComputeStreak

SpecStreak ==
    InitStreak /\ [][NextStreak]_vars

\* runs of one handler over stored tokens that may fail decryption
InitDecrypt ==
    /\ InitStore
    /\ profile = ProfileInit(0)
    /\ InitConnected
    /\ NoWindowInput
    /\ nextState = 1
    /\ runs = MaxRuns
    /\ cbRuns = 0
    /\ notes = 0

NextDecrypt ==
    \/ SyncStep("s1", Responses(PastDays(MaxAuthRecords), {1}, {FALSE}, {0}))
    \/ SyncDecryptRefreshFail("s1")
    \/ SyncDecryptAccessFail("s1")
    \/ Tick

SpecDecrypt ==
    InitDecrypt /\ [][NextDecrypt]_vars

\* two concurrent runs of one user and the recomputations they fire; the
\* provider may revise a score between the two fetches
SummaryVersions == 1..2

InitSummary ==
    /\ InitStore
    /\ profile = ProfileInit(0)
    /\ InitConnected
    /\ NoWindowInput
    /\ nextState = 1
    /\ runs = 2
    /\ cbRuns = 0
    /\ notes = 0

NextSummary ==
    \/ \E p \in SyncProcs :
          SyncStep(p, Responses(PastDays(MaxAuthRecords), SummaryVersions,
                                {FALSE}, {0}))
    \/ \E j \in summ.jobs : SummaryRead(j)
    \/ \E j \in summ.jobs : SummaryWrite(j)

SpecSummary ==
    InitSummary /\ [][NextSummary]_vars

\* one client syncing on successive days, the recomputations in flight
NextRecompute ==
    \/ SyncStep("s1", Responses(DaysUpTo(MaxAuthRecords), SummaryVersions,
                                {FALSE}, {0}))
    \/ \E j \in summ.jobs : SummaryRead(j)
    \/ \E j \in summ.jobs : SummaryWrite(j)
    \/ NextDay

SpecRecompute ==
    InitSummary /\ [][NextRecompute]_vars

\* successive runs of one handler over several days
InitCoverage ==
    /\ InitStore
    /\ profile = ProfileInit(0)
    /\ InitConnected
    /\ NoWindowInput
    /\ nextState = 1
    /\ runs = MaxRuns
    /\ cbRuns = 0
    /\ notes = 0

NextCoverage ==
    \/ SyncStep("s1", Responses(PastDays(MaxAuthRecords), {1}, {FALSE}, {0}))
    \/ NextDay

SpecCoverage ==
    InitCoverage /\ [][NextCoverage]_vars

\* the window computation on its own
InitWindow ==
    /\ InitStore
    /\ profile = ProfileInit(0)
    /\ integ = DisconnectedIntegration
    /\ nextState = 1
    /\ runs = 0
    /\ cbRuns = 0
    /\ notes = 0
    /\ wOut = NoWindow
    /\ \E n \in Instants(WindowNowDays) :
         \E l \in WindowLasts(n) : wIn = [last |-> l, now |-> n]

NextWindow ==
    ComputeWindow

SpecWindow ==
    InitWindow /\ [][NextWindow]_vars

Spec ==
    SpecLifecycle

\* ------------------------------------------------------------ claims
Quiescent ==
    \A p \in SyncProcs : sync[p].pc \in {"idle", "done"}

\* the records a run's commits wrote, and the items of its failed batches
RECURSIVE WrittenByCommitted(_)
WrittenByCommitted(outcomes) ==
    IF outcomes = <<>> THEN 0
    ELSE (IF Head(outcomes).ok THEN Head(outcomes).written ELSE 0)
         + WrittenByCommitted(Tail(outcomes))

BatchCount(n) ==
    (n + BATCH_SIZE - 1) \div BATCH_SIZE

\* C1: when a run writes a record for a day whose Daily Sleep Record
\* existed at the run's read, and no other writer wrote that day since the
\* read, the record stored after the batch commit has the new score and
\* metrics and the tags and notes of the existing record.
C1_MergeKeepsExistingAnnotations ==
    \A p \in SyncProcs : \A k \in 1..Len(sync[p].committed) :
        LET w == sync[p].committed[k]
        IN  (w.existed /\ w.day \notin sync[p].dirty) =>
                /\ daily[w.day].exists
                /\ daily[w.day].score = w.score
                /\ daily[w.day].metrics = w.metrics
                /\ daily[w.day].tags = OrEmpty(w.seenTags)
                /\ daily[w.day].notes = OrEmpty(w.seenNotes)

C1_Witness ==
    \E p \in SyncProcs : \E k \in 1..Len(sync[p].committed) :
        LET w == sync[p].committed[k]
        IN  /\ w.existed
            /\ w.day \notin sync[p].dirty
            /\ w.seenTags > 0
            /\ w.seenNotes > 0
            /\ daily[w.day].score = w.score
            /\ daily[w.day].tags = w.seenTags
            /\ daily[w.day].notes = w.seenNotes

\* C2: for every interleaving of a run and addSleepNote on the same day,
\* once both have completed the stored tags and notes are the ones
\* addSleepNote wrote.
C2_NoteSurvivesEveryInterleaving ==
    Quiescent =>
        \A d \in Days :
            /\ lastNote[d].tags # Absent => daily[d].tags = lastNote[d].tags
            /\ lastNote[d].notes # Absent => daily[d].notes = lastNote[d].notes

\* C3: after a callback consumed a state record and completed
\* successfully, every later callback carrying that state value is
\* rejected as invalid state and exchanges no code.
C3_ReplayedStateRejected ==
    \A c \in CbProcs :
        cb[c].late =>
            /\ cb[c].pc = "done"
            /\ cb[c].result = "invalidState"
            /\ cb[c].exchanges = 0

C3_Witness ==
    \E c \in CbProcs :
        /\ cb[c].late
        /\ cb[c].result = "invalidState"
        /\ cb[c].state \in consumed

\* C4: the state record is deleted once validated and before the code
\* exchange, so the record is gone when the exchange is invoked and no
\* state passes validation twice.
C4_StateDeletedBeforeExchange ==
    /\ \A c \in CbProcs :
           cb[c].pc = "exchange" => ~oauthStates[cb[c].state].exists
    /\ \A s \in StateIds : oauthStates[s].validations <= 1

\* C5: of the callbacks that carry one state value at most one reaches
\* the code exchange and persists an Integration Record.
C5_StateConsumedAtMostOnce ==
    \A s \in StateIds : persisted[s] <= 1

C7_OnlyReconnectClearsInvalid ==
    [][(integ.tokenInvalid /\ ~integ'.tokenInvalid) =>
          \/ integ' = DisconnectedIntegration
          \/ \E c \in CbProcs : cb[c].pc = "persist" /\ cb'[c].pc = "delete"]_vars

\* C8: in every reachable state connected = true implies that accessToken
\* and refreshToken are present.
C8_ConnectedHasTokens ==
    integ.connected => (integ.accessToken # 0 /\ integ.refreshToken # 0)

C8_Witness ==
    /\ integ.connected
    /\ integ.accessToken > 1
    /\ \E c \in CbProcs : cb[c].result = "success"

\* C9: a failed batch commit does not stop later batches; at the end of
\* the run every batch was attempted, processed counts the records of the
\* committed batches, failed counts the others, totalFetched covers all of
\* them and lastSyncDate was advanced.
C9_FailedBatchIsolated ==
    \A p \in SyncProcs :
        (sync[p].pc = "done" /\ sync[p].result = "synced") =>
            /\ Len(sync[p].outcomes) = BatchCount(Len(sync[p].mapped))
            /\ sync[p].processed = WrittenByCommitted(sync[p].outcomes)
            /\ sync[p].errors = Len(sync[p].mapped) - sync[p].processed
            /\ sync[p].rawCount >= Len(sync[p].mapped)
            /\ sync[p].bookkept

\* C10: the fetch window of a run, in UTC calendar days, starts at
\* now - 6 months when lastSyncDate is absent and at
\* max(lastSyncDate + 1 day, now - 6 months) otherwise, and ends today.
C10_WindowIsMaxOfDayAfterAndLookback ==
    wOut # NoWindow =>
        LET lookback == DayOf(SubtractMonths(wIn.now, LookbackMonths))
            start == IF wIn.last = NoDate THEN lookback
                     ELSE Max(DayOf(wIn.last) + 1, lookback)
        IN  wOut = <<start, DayOf(wIn.now)>>

PastWindow ==
    {"fetch", "saveEmpty", "parentSet", "record", "commit", "meta", "saveSync"}

\* C11: a run whose window start is after its window end (lastSyncDate on
\* today's UTC day) never reaches the fetch; it ends as up to date with
\* processed = 0, no provider data fetch, no batch written and no
\* lastSyncDate bookkeeping.
C11_EmptyWindowShortCircuits ==
    \A p \in SyncProcs :
        /\ sync[p].pc \in PastWindow => sync[p].win[1] <= sync[p].win[2]
        /\ sync[p].result = "upToDate" =>
               /\ sync[p].win[1] > sync[p].win[2]
               /\ sync[p].user.lastSyncDate # NoDate
               /\ DayOf(sync[p].user.lastSyncDate) >= sync[p].win[2]
               /\ sync[p].fetchCalls = 0
               /\ sync[p].processed = 0
               /\ sync[p].rawCount = 0
               /\ sync[p].outcomes = <<>>
               /\ ~sync[p].bookkept

C11_Witness ==
    \E p \in SyncProcs :
        /\ sync[p].result = "upToDate"
        /\ DayOf(integ.lastSyncDate) = DayOf(clock)

SoftResults ==
    {"rateLimited", "softFailure"}

C14_SyncLeavesProfileFields ==
    (Quiescent /\ profile.updated # Absent) => profile.stored = profile.updated

IntegrationOf(u) ==
    IF u = Me THEN integ ELSE others[u]

\* C15: the tokens of a callback are persisted only into the Integration
\* Record of the user whose initiate request created the state record the
\* callback presents, and no step of a callback changes the Integration
\* Record of any other user.
C15_TokensGoToStateCreator ==
    [][\A c \in CbProcs :
          cb'[c] # cb[c] =>
              IF cb[c].pc = "persist" /\ cb'[c].pc = "delete"
              THEN /\ creator[cb[c].state] \in Users
                   /\ \A u \in Users :
                        IF u = creator[cb[c].state]
                        THEN /\ IntegrationOf(u)'.accessToken = cb[c].tok
                             /\ IntegrationOf(u)'.connected
                        ELSE IntegrationOf(u)' = IntegrationOf(u)
              ELSE \A u \in Users : IntegrationOf(u)' = IntegrationOf(u)]_vars

C15_Witness ==
    /\ others["u2"].connected
    /\ integ.connected
    /\ integ.accessToken # others["u2"].accessToken

\* C16: a persisted expiresAt is the time of the operation plus
\* (expires_in - margin) seconds with a margin of at least 300 seconds, and
\* it lies at least 300 seconds before the provider's own expiry of the
\* token (issue time + expires_in).
C16_ExpiryKeepsSafetyMargin ==
    wOut # NoExpiry =>
        LET margin == wOut.opTime + wIn.expiresIn - wOut.expiresAt
        IN  /\ margin >= 300
            /\ wOut.expiresAt = wOut.opTime + (wIn.expiresIn - margin)
            /\ (wIn.issued + wIn.expiresIn) - wOut.expiresAt >= 300

\* C17: for every plaintext over an alphabet that includes ':', decrypting
\* what encryption produced gives the plaintext back, with an encryption
\* secret configured and in the insecure passthrough mode alike.
C17_DecryptInvertsEncrypt ==
    wOut.stage = "read" => wOut.read = wIn.data

\* the raw records the mapper must accept
Usable(r) ==
    r.day # Absent /\ r.day # Unparseable /\ r.score # Absent

Accepted(raw) ==
    SelectSeq(raw, Usable)

\* C18: the mapper leaves out every raw record without a (parseable) day
\* or without a numeric score, gives it no default score, and counts it as
\* a mapping error: normalized records + mapping errors = raw records.
C18_DroppedRecordsCounted ==
    wOut.done =>
        /\ Len(wOut.mapped) = Len(Accepted(wIn))
        /\ \A k \in 1..Len(wOut.mapped) :
               /\ wOut.mapped[k].day = Accepted(wIn)[k].day
               /\ wOut.mapped[k].ouraScore = Accepted(wIn)[k].score
        /\ Len(wOut.mapped) + wOut.mappingErrors = Len(wIn)

\* C19: an accepted record with total_sleep_duration gets exactly that as
\* its total sleep seconds; one with contributor percentages only gets
\* 28800 * contributors.total_sleep / 100.
C19_TotalSleepSeconds ==
    wOut.done =>
        \A k \in 1..Len(wOut.mapped) :
            LET r == Accepted(wIn)[k]
            IN  /\ r.total_sleep_duration # Absent =>
                       wOut.mapped[k].metrics = r.total_sleep_duration
                /\ (r.total_sleep_duration = Absent
                    /\ r.contributors # Absent) =>
                       wOut.mapped[k].metrics
                           = (28800 * r.contributors) \div 100

\* documents a..b all meet the threshold
RunOfGood(s, a, b, t) ==
    \A k \in a..b : s[k] >= t

\* the lengths of the runs of consecutive documents that meet the threshold
GoodRunLengths(s, t) ==
    {0} \cup {b - a + 1 : <<a, b>> \in
                 {w \in (1..Len(s)) \X (1..Len(s)) :
                      w[1] <= w[2] /\ RunOfGood(s, w[1], w[2], t)}}

MaxOf(S) ==
    CHOOSE m \in S : \A x \in S : x <= m

\* the lengths of the good runs that end at the last document
TrailingRunLengths(s, t) ==
    {0} \cup {Len(s) - a + 1 : a \in {x \in 1..Len(s) :
                                        RunOfGood(s, x, Len(s), t)}}

\* C20: for date-sorted scores and a threshold, longest is the greatest
\* length of a run of consecutive records with score >= threshold and
\* current is the length of the run that ends at the last record, 0 when
\* the last record is below the threshold.
C20_StreakLengths ==
    wOut.done =>
        /\ wOut.streak.longest = MaxOf(GoodRunLengths(wIn.scores,
                                                      wIn.threshold))
        /\ wOut.streak.current = MaxOf(TrailingRunLengths(wIn.scores,
                                                          wIn.threshold))
        /\ (wIn.scores # <<>>
            /\ wIn.scores[Len(wIn.scores)] < wIn.threshold)
               => wOut.streak.current = 0

C20_Witness ==
    /\ wOut.done
    /\ wIn = [scores |-> <<80, 90, 60, 85, 95>>, threshold |-> 75]
    /\ wOut.streak.longest = 2
    /\ wOut.streak.current = 2

CbBegins(c, s) ==
    cb[c].pc = "idle" /\ cb'[c].pc # "idle" /\ cb'[c].state = s

\* C22: a callback whose state value has no record, or whose record has
\* expired, is rejected as an invalid state, exchanges no code and changes
\* no integration record; the expired record is deleted by that callback.
C22_MissingOrExpiredStateRejected ==
    [][\A c \in CbProcs :
          /\ \A s \in StateIds :
                (CbBegins(c, s)
                 /\ (~oauthStates[s].exists \/ clock > oauthStates[s].expires))
                => /\ cb'[c].exchanges = 0
                   /\ integ' = integ /\ others' = others
                   /\ IF oauthStates[s].exists
                      THEN cb'[c].pc = "deleteExpired"
                      ELSE cb'[c].pc = "done"
                           /\ cb'[c].result = "invalidState"
          /\ (cb[c].pc = "deleteExpired" /\ cb'[c] # cb[c])
                => /\ cb'[c].pc = "done"
                   /\ cb'[c].result = "invalidState"
                   /\ cb'[c].exchanges = 0
                   /\ ~oauthStates'[cb[c].state].exists
                   /\ integ' = integ /\ others' = others]_vars

\* an expired record was rejected and deleted
C22_Witness ==
    \E c \in CbProcs :
        /\ cb[c].pc = "done"
        /\ cb[c].result = "invalidState"
        /\ creator[cb[c].state] # "none"
        /\ cb[c].state \notin consumed
        /\ persisted[cb[c].state] = 0
        /\ ~oauthStates[cb[c].state].exists

\* C23: a run whose stored access-token or refresh-token ciphertext fails
\* decryption fetches nothing from the provider, persists tokenInvalid =
\* true and answers that the user must reconnect.
C23_DecryptFailureNeedsReconnect ==
    \A p \in SyncProcs :
        (sync[p].pc = "done" /\ sync[p].decryptFailed # "none")
        => /\ sync[p].fetchCalls = 0
           /\ sync[p].result = "needsReconnect"
           /\ sync[p].needsReconnect
           /\ integ.tokenInvalid

SummariesSettled ==
    /\ \A p \in SyncProcs : sync[p].pc \in {"idle", "done"}
    /\ runs = 0
    /\ summ.jobs = {}

\* C30: after all runs of a user and the recomputations they fired have
\* finished, the stored summary is the one computed from the final set of
\* daily records, for every interleaving of two runs and their
\* recomputations.
C30_FinalSummaryFromFinalRecords ==
    (SummariesSettled /\ summ.writes > 0)
    => summ.doc.val["monthlyTrend"]
          = calculateMonthlyTrend(SummaryDocs(daily))

\* a callback's transaction commits in this step
CallbackPersists ==
    \E c \in CbProcs : cb[c].pc = "persist" /\ cb'[c].pc = "delete"

\* C25: once a disconnect has committed, the stored Integration Record
\* stays connected = false without tokens until a callback persists a new
\* connection, also when a run that read the user before the disconnect
\* saves after it.
C25_DisconnectHolds ==
    [][(~integ.connected /\ integ.accessToken = 0 /\ integ.refreshToken = 0)
       => \/ CallbackPersists
          \/ (~integ'.connected /\ integ'.accessToken = 0
              /\ integ'.refreshToken = 0)]_vars

\* run p performs one of its saves of a mark or of the bookkeeping
StaleSave(p) ==
    /\ sync[p].pc \in {"saveInvalid", "saveEmpty", "saveSync"}
    /\ sync'[p].pc # sync[p].pc

\* C26: the token pair and expiry a callback or a refresh persisted are not
\* replaced by older ones: a run that read the user before that write and
\* saves a mark or its bookkeeping afterwards leaves them in place.
C26_NewerTokensKept ==
    [][\A p \in SyncProcs :
          (StaleSave(p) /\ integ.accessToken > sync[p].user.accessToken)
          => /\ integ'.accessToken = integ.accessToken
             /\ integ'.refreshToken = integ.refreshToken
             /\ integ'.expiresAt = integ.expiresAt]_vars

WindowStarts ==
    {w[1] : w \in ledger.windows}

WindowEnds ==
    {w[2] : w \in ledger.windows}

\* C27: the fetch windows of the completed runs of a connected user leave
\* no gap: every UTC day from the first window's start to the latest
\* window's end lies in the window of some run, also when a run saves its
\* lastSyncDate on a later day than its window end.
C27_WindowsLeaveNoGap ==
    ledger.windows # {} =>
        \A d \in (CHOOSE a \in WindowStarts : \A x \in WindowStarts : a <= x)
                 ..(CHOOSE b \in WindowEnds : \A x \in WindowEnds : x <= b) :
            \E w \in ledger.windows : w[1] <= d /\ d <= w[2]

\* the run has computed its window
WindowComputed(r) ==
    r.pc \in PastWindow \/ (r.pc = "done" /\ r.result = "upToDate")

\* C28: the days of the records of a failed write batch are fetched again:
\* every run that computes its window while such a day is not stored has
\* the day in its window.
C28_FailedDaysFetchedAgain ==
    \A p \in SyncProcs :
        WindowComputed(sync[p]) =>
            \A d \in ledger.failed :
                sync[p].win[1] <= d /\ d <= sync[p].win[2]

\* C29: at the end of every run that reached the write stage, processed
\* and failed are not negative and add up to the number of normalized
\* records, whatever records fail on their own and whatever commits fail.
C29_CountsAddUp ==
    \A p \in SyncProcs :
        (sync[p].pc = "done" /\ sync[p].result = "synced") =>
            /\ sync[p].processed >= 0
            /\ sync[p].errors >= 0
            /\ sync[p].processed + sync[p].errors = Len(sync[p].mapped)

====
